---- MODULE Spec2Model ----
(***************************************************************************)
(* Qoriq: issue detector (src/src/validator.py), quality scorer            *)
(* (src/src/quality.py) and naive bulk fixer (src/src/fixer.py), modelled  *)
(* over small in-memory tables.                                            *)
(*                                                                         *)
(* A table is a sequence of columns; a column is a record                  *)
(*   [name, dtype, cells] with dtype in {"int64", "float64", "object"}.    *)
(* A cell is a tagged tuple:                                               *)
(*   <<"nan">>      numpy NaN                                              *)
(*   <<"none">>     Python None                                            *)
(*   <<"int", v>>   the integer v                                          *)
(*   <<"flt", h>>   the float h / 2 (floats are kept in halves: the only   *)
(*                  non-integral floats the code produces from integral    *)
(*                  data are medians)                                      *)
(*   <<"str", s>>   the text s                                             *)
(* Percent metrics are kept as integers in thousandths of a percent, which *)
(* is the precision score_dataframe rounds its results to.                 *)
(***************************************************************************)
EXTENDS Integers, Sequences, FiniteSets, TLC

VARIABLES df, pc, quality_before, missing_threshold, issues, result, quality_after,
          scoring_weights, set_calls, set_arg, set_raised,
          issues_again, result_again

\* the module-level weights of quality.py and the record of the calls of
\* set_scoring_weights: how many, the argument and the exception of the last
weight_vars == <<scoring_weights, set_calls, set_arg, set_raised>>

\* the issues and the result of a second detect and clean, on the cleaned table
again_vars == <<issues_again, result_again>>

vars == <<df, pc, quality_before, missing_threshold, issues, result, quality_after,
          scoring_weights, set_calls, set_arg, set_raised, issues_again, result_again>>

(***************************************************************************)
(* Bounds of the exploration.                                              *)
(***************************************************************************)
MaxRows == 5

\* calls of set_scoring_weights in one run
MaxSetCalls == 2

\* rows of the tables on which the rarer arguments of clean are explored: an
\* issue on a column the table lacks, a preview limit of 1
MaxSmallRows == 2

(***************************************************************************)
(* Cells.                                                                  *)
(***************************************************************************)
NaN == <<"nan">>

None == <<"none">>

IntCell(v) == <<"int", v>>

FltCell(h) == <<"flt", h>>

StrCell(s) == <<"str", s>>

IsNA(c) == c[1] \in {"nan", "none"}

IsNum(c) == c[1] \in {"int", "flt"}

IsStr(c) == c[1] = "str"

\* value of a numeric cell, in halves
Halves(c) == IF c[1] = "int" THEN 2 * c[2] ELSE c[2]

(***************************************************************************)
(* Text helpers: Python's str methods, written over characters.            *)
(***************************************************************************)
Ch(s, i) == SubSeq(s, i, i)

Digits == {"0", "1", "2", "3", "4", "5", "6", "7", "8", "9"}

LowerLetters == {"a", "b", "c", "d", "e", "f", "g", "h", "i", "j", "k", "l", "m",
                 "n", "o", "p", "q", "r", "s", "t", "u", "v", "w", "x", "y", "z"}

UpperLetters == {"A", "B", "C", "D", "E", "F", "G", "H", "I", "J", "K", "L", "M",
                 "N", "O", "P", "Q", "R", "S", "T", "U", "V", "W", "X", "Y", "Z"}

Letters == LowerLetters \cup UpperLetters

Whitespace == {" "}

DigitVal(ch) ==
    CASE ch = "0" -> 0 [] ch = "1" -> 1 [] ch = "2" -> 2 [] ch = "3" -> 3
      [] ch = "4" -> 4 [] ch = "5" -> 5 [] ch = "6" -> 6 [] ch = "7" -> 7
      [] ch = "8" -> 8 [] ch = "9" -> 9

AllIn(s, lo, hi, class) == \A i \in lo..hi : Ch(s, i) \in class

RECURSIVE DecVal(_, _, _)
\* the number written by the digits s[lo..hi]
DecVal(s, lo, hi) ==
    IF hi < lo THEN 0 ELSE 10 * DecVal(s, lo, hi - 1) + DigitVal(Ch(s, hi))

\* str.contains(ch) for a one-character pattern
StrContains(s, ch) == \E i \in 1..Len(s) : Ch(s, i) = ch

LowerCh(ch) ==
    CASE ch = "A" -> "a" [] ch = "B" -> "b" [] ch = "C" -> "c" [] ch = "D" -> "d"
      [] ch = "E" -> "e" [] ch = "F" -> "f" [] ch = "G" -> "g" [] ch = "H" -> "h"
      [] ch = "I" -> "i" [] ch = "J" -> "j" [] ch = "K" -> "k" [] ch = "L" -> "l"
      [] ch = "M" -> "m" [] ch = "N" -> "n" [] ch = "O" -> "o" [] ch = "P" -> "p"
      [] ch = "Q" -> "q" [] ch = "R" -> "r" [] ch = "S" -> "s" [] ch = "T" -> "t"
      [] ch = "U" -> "u" [] ch = "V" -> "v" [] ch = "W" -> "w" [] ch = "X" -> "x"
      [] ch = "Y" -> "y" [] ch = "Z" -> "z" [] OTHER -> ch

RECURSIVE StrLowerFrom(_, _)
StrLowerFrom(s, i) ==
    IF i > Len(s) THEN "" ELSE LowerCh(Ch(s, i)) \o StrLowerFrom(s, i + 1)

\* str.lower()
StrLower(s) ==
    IF \E i \in 1..Len(s) : Ch(s, i) \in UpperLetters THEN StrLowerFrom(s, 1) ELSE s

\* str.strip()
StrStrip(s) ==
    LET keep == {i \in 1..Len(s) : Ch(s, i) \notin Whitespace}
    IN  IF keep = {} THEN ""
        ELSE SubSeq(s, CHOOSE i \in keep : \A j \in keep : i <= j,
                       CHOOSE i \in keep : \A j \in keep : j <= i)

Pad2(n) == IF n < 10 THEN "0" \o ToString(n) ELSE ToString(n)

Pad4(n) ==
    IF n < 10 THEN "000" \o ToString(n)
    ELSE IF n < 100 THEN "00" \o ToString(n)
    ELSE IF n < 1000 THEN "0" \o ToString(n)
    ELSE ToString(n)

\* repr of a float kept in halves: 1.0, 1.5, ...
FloatStr(h) == ToString(h \div 2) \o (IF h % 2 = 0 THEN ".0" ELSE ".5")

\* Python's str() of a cell, as astype(str) applies it
PyStr(c) ==
    CASE c[1] = "nan" -> "nan"
      [] c[1] = "none" -> "None"
      [] c[1] = "int" -> ToString(c[2])
      [] c[1] = "flt" -> FloatStr(c[2])
      [] c[1] = "str" -> c[2]

(***************************************************************************)
(* Tables.                                                                 *)
(***************************************************************************)
\* the sequence f as a tuple whose elements are evaluated once
AsSeq(f) == f \o <<>>

Column(name, dtype, cells) == [name |-> name, dtype |-> dtype, cells |-> AsSeq(cells)]

\* the column with F applied to each cell
MapCells(col, F(_)) ==
    [col EXCEPT !.cells = AsSeq([i \in 1..Len(col.cells) |-> F(col.cells[i])])]

\* the table with F applied to each column
MapColumns(t, F(_)) == AsSeq([k \in 1..Len(t) |-> F(t[k])])

\* q[:n]
Take(q, n) == AsSeq([i \in 1..(IF n < Len(q) THEN n ELSE Len(q)) |-> q[i]])

SeqToSet(q) == {q[i] : i \in 1..Len(q)}

\* the non-missing cells of a column, in order: Series.dropna()
DropNA(cells) == SelectSeq(cells, LAMBDA c : ~IsNA(c))

NCols(t) == Len(t)

NRows(t) == IF Len(t) = 0 THEN 0 ELSE Len(t[1].cells)

ColumnNames(t) == {t[k].name : k \in 1..Len(t)}

\* position of the column called name
ColIndex(t, name) == CHOOSE k \in 1..Len(t) : t[k].name = name

IsNumericDtype(col) == col.dtype \in {"int64", "float64"}

CountWhere(cells, P(_)) == Cardinality({i \in 1..Len(cells) : P(cells[i])})

(***************************************************************************)
(* Exact fractions <<numerator, denominator>> and rounding.                *)
(***************************************************************************)
RECURSIVE GCD(_, _)
GCD(a, b) == IF b = 0 THEN a ELSE GCD(b, a % b)

Frac(n, d) == LET g == GCD(n, d) IN IF g = 0 THEN <<0, 1>> ELSE <<n \div g, d \div g>>

FracAdd(x, y) == Frac(x[1] * y[2] + y[1] * x[2], x[2] * y[2])

FracMul(x, y) == Frac(x[1] * y[1], x[2] * y[2])

RECURSIVE FracSum(_)
FracSum(fs) == IF fs = <<>> THEN <<0, 1>> ELSE FracAdd(Head(fs), FracSum(Tail(fs)))

\* round(100.0 * x, 3) for a fraction x of the whole, in thousandths of a percent
Round3(x) == (200000 * x[1] + x[2]) \div (2 * x[2])

(***************************************************************************)
(* quality.py                                                              *)
(***************************************************************************)
Dims == <<"completeness", "safety", "consistency", "uniqueness", "validity", "timeliness">>

DimSet == {Dims[k] : k \in 1..Len(Dims)}

\* A weight is a fraction <<n, d>> with d > 0, or the float NaN, written
\* <<0, 0>>.
NaNWeight == <<0, 0>>

IsNaNWeight(x) == x[2] = 0

WeightAdd(x, y) == IF IsNaNWeight(x) \/ IsNaNWeight(y) THEN NaNWeight ELSE FracAdd(x, y)

WeightMul(x, y) == IF IsNaNWeight(x) \/ IsNaNWeight(y) THEN NaNWeight ELSE FracMul(x, y)

\* x / y for y neither 0 nor negative
WeightDiv(x, y) ==
    IF IsNaNWeight(x) \/ IsNaNWeight(y) THEN NaNWeight ELSE FracMul(x, <<y[2], y[1]>>)

\* sum(w.values())
WeightTotal(w) ==
    WeightAdd(w["completeness"], WeightAdd(w["safety"], WeightAdd(w["consistency"],
        WeightAdd(w["uniqueness"], WeightAdd(w["validity"], w["timeliness"])))))

\* _SCORING_WEIGHTS as the module is loaded
_SCORING_WEIGHTS ==
    [d \in DimSet |-> IF d \in {"completeness", "safety"} THEN <<1, 2>> ELSE <<0, 1>>]

\* a copy of the current module-level weights
get_scoring_weights == scoring_weights

IsNegativeWeight(x) == ~IsNaNWeight(x) /\ x[1] < 0

IsZeroWeight(x) == ~IsNaNWeight(x) /\ x[1] = 0

\* w: the current weights overridden by the provided keys
MergedWeights(cur, items) ==
    [k \in DimSet |-> IF k \in DOMAIN items THEN items[k] ELSE cur[k]]

\* faulty variant: the merged weights are stored before they are validated
set_scoring_weights_unvalidated(cur, weights) ==
    IF ~weights.is_dict THEN [raised |-> "TypeError", weights |-> cur]
    ELSE IF ~(DOMAIN weights.items \subseteq DimSet)
         THEN [raised |-> "KeyError", weights |-> cur]
    ELSE LET w == MergedWeights(cur, weights.items)
         IN  IF \E k \in DOMAIN weights.items : IsNegativeWeight(w[k])
             THEN [raised |-> "ValueError", weights |-> w]
             ELSE IF IsZeroWeight(WeightTotal(w))
                  THEN [raised |-> "ValueError", weights |-> w]
             ELSE [raised |-> "",
                   weights |-> [k \in DimSet |-> WeightDiv(w[k], WeightTotal(w))]]

\* set_scoring_weights called with the module-level weights cur: the
\* exception it raises ("" for none) and the module-level weights it leaves.
\* The argument is [is_dict, items]; items maps keys to weights.
set_scoring_weights(cur, weights) ==
    IF ~weights.is_dict THEN [raised |-> "TypeError", weights |-> cur]
    ELSE IF ~(DOMAIN weights.items \subseteq DimSet)
         THEN [raised |-> "KeyError", weights |-> cur]
    ELSE LET w == MergedWeights(cur, weights.items)
         IN  \* float nan is not < 0, and a total of nan is not == 0
             IF \E k \in DOMAIN weights.items : IsNegativeWeight(w[k])
             THEN [raised |-> "ValueError", weights |-> cur]
             ELSE IF IsZeroWeight(WeightTotal(w))
                  THEN [raised |-> "ValueError", weights |-> cur]
             ELSE [raised |-> "",
                   weights |-> [k \in DimSet |-> WeightDiv(w[k], WeightTotal(w))]]

\* faulty variant: the empty text is not turned into a missing value
_normalize_missing_values_skipped(t) == t

\* faulty variant: whitespace-only texts are made missing too
_normalize_missing_values_stripped(t) ==
    MapColumns(t, LAMBDA col :
        MapCells(col, LAMBDA c : IF IsStr(c) /\ StrStrip(c[2]) = "" THEN NaN ELSE c))

_normalize_missing_values(t) ==
    MapColumns(t, LAMBDA col :
        MapCells(col, LAMBDA c : IF c = StrCell("") THEN NaN ELSE c))

\* the cell as the scorer's string comparisons see it: astype(str), strip, lower
Flattened(c) == StrLower(StrStrip(PyStr(c)))

\* number of cells of the table that satisfy P
CountCells(t, P(_)) ==
    Cardinality({<<k, i>> \in (1..Len(t)) \X (1..NRows(t)) : P(t[k].cells[i])})

\* frequency of the most common value among the non-missing, stripped texts
ModeCount(vals) ==
    LET cnt(v) == Cardinality({i \in 1..Len(vals) : vals[i] = v})
    IN  CHOOSE m \in {cnt(vals[i]) : i \in 1..Len(vals)} :
            \A i \in 1..Len(vals) : cnt(vals[i]) <= m

\* the score of one column: mode_count / denom, 1.0 for an empty column
ColumnConsistency(col) ==
    LET present == DropNA(col.cells)
        vals == AsSeq([i \in 1..Len(present) |-> StrStrip(PyStr(present[i]))])
    IN  IF Len(present) = 0 THEN <<1, 1>>
        ELSE Frac(ModeCount(vals), Len(vals))

_compute_consistency(df_norm) ==
    LET scores == AsSeq([k \in 1..Len(df_norm) |-> ColumnConsistency(df_norm[k])])
    IN  IF Len(scores) > 0 THEN FracMul(FracSum(scores), <<1, Len(scores)>>)
        ELSE <<1, 1>>

(***************************************************************************)
(* pandas helpers shared by the detector and the fixer.                    *)
(***************************************************************************)
\* pandas.to_numeric(errors="coerce") on one value; texts are numbers when
\* they are written as digits, or as digits with one decimal .0 or .5
ParseNumber(c) ==
    IF IsNum(c) THEN c
    ELSE IF IsNA(c) THEN NaN
    ELSE LET s == c[2]
             n == Len(s)
         IN  IF n >= 1 /\ AllIn(s, 1, n, Digits) THEN IntCell(DecVal(s, 1, n))
             ELSE IF n >= 3 /\ AllIn(s, 1, n - 2, Digits) /\ Ch(s, n - 1) = "."
                     /\ Ch(s, n) \in {"0", "5"}
                  THEN FltCell(2 * DecVal(s, 1, n - 2) + (IF Ch(s, n) = "5" THEN 1 ELSE 0))
             ELSE NaN

\* pandas.to_numeric(ser, errors="coerce"): int64 when every value is an
\* integer, float64 (integers widened) otherwise
ToNumeric(col) ==
    LET parsed == MapCells(col, ParseNumber)
    IN  IF IsNumericDtype(col) THEN col
        ELSE IF \A i \in 1..Len(parsed.cells) : parsed.cells[i][1] = "int"
             THEN [parsed EXCEPT !.dtype = "int64"]
        ELSE [MapCells(parsed, LAMBDA c : IF c[1] = "int" THEN FltCell(2 * c[2]) ELSE c)
                 EXCEPT !.dtype = "float64"]

IsLeap(y) == (y % 4 = 0 /\ y % 100 # 0) \/ y % 400 = 0

DaysInMonth(y, m) ==
    IF m = 2 THEN (IF IsLeap(y) THEN 29 ELSE 28)
    ELSE IF m \in {4, 6, 9, 11} THEN 30 ELSE 31

ValidDate(y, m, d) == y >= 1 /\ m \in 1..12 /\ d >= 1 /\ d <= DaysInMonth(y, m)

NaT == <<>>

\* pandas.to_datetime(errors="coerce") on one text.  Two layouts are read:
\* YYYY-MM-DD, and NN/NN/YYYY which is month/day by default and day/month
\* with dayfirst (falling back to month/day when day/month is no date).
\* Every other text of the explored tables is no date for pandas either.
ParseDate(s, dayfirst) ==
    IF Len(s) # 10 THEN NaT
    ELSE IF Ch(s, 5) = "-" /\ Ch(s, 8) = "-" /\ AllIn(s, 1, 4, Digits)
            /\ AllIn(s, 6, 7, Digits) /\ AllIn(s, 9, 10, Digits)
         THEN LET y == DecVal(s, 1, 4)
                  m == DecVal(s, 6, 7)
                  d == DecVal(s, 9, 10)
              IN  IF ValidDate(y, m, d) THEN <<y, m, d>> ELSE NaT
    ELSE IF Ch(s, 3) = "/" /\ Ch(s, 6) = "/" /\ AllIn(s, 1, 2, Digits)
            /\ AllIn(s, 4, 5, Digits) /\ AllIn(s, 7, 10, Digits)
         THEN LET a == DecVal(s, 1, 2)
                  b == DecVal(s, 4, 5)
                  y == DecVal(s, 7, 10)
              IN  IF dayfirst /\ ValidDate(y, b, a) THEN <<y, b, a>>
                  ELSE IF ValidDate(y, a, b) THEN <<y, a, b>>
                  ELSE NaT
    ELSE NaT

\* faulty variant: strftime("%d/%m/%Y")
StrftimeDayFirst(ts) == Pad2(ts[3]) \o "/" \o Pad2(ts[2]) \o "/" \o Pad4(ts[1])

\* Timestamp.strftime("%Y-%m-%d")
Strftime(ts) == Pad4(ts[1]) \o "-" \o Pad2(ts[2]) \o "-" \o Pad2(ts[3])

\* equality of two cells as DataFrame.duplicated and nunique see it
SameValue(a, b) ==
    IF IsNA(a) \/ IsNA(b) THEN IsNA(a) /\ IsNA(b)
    ELSE IF IsNum(a) /\ IsNum(b) THEN Halves(a) = Halves(b)
    ELSE a = b

\* DataFrame.duplicated(subset, keep="first"): the rows that repeat an
\* earlier row on every column of subset
Duplicated(t, subset) ==
    {i \in 1..NRows(t) :
        \E j \in 1..(i - 1) :
            \A c \in subset : SameValue(t[ColIndex(t, c)].cells[i],
                                        t[ColIndex(t, c)].cells[j])}

\* Series.nunique(dropna=True)
NUnique(cells) ==
    LET present == DropNA(cells)
    IN  Cardinality({i \in 1..Len(present) :
                        \A j \in 1..(i - 1) : ~SameValue(present[i], present[j])})

\* the rows of the table at the positions keep, in order, renumbered
SelectRows(t, keep) ==
    LET idx == SelectSeq(AsSeq([i \in 1..NRows(t) |-> i]), LAMBDA i : i \in keep)
    IN  MapColumns(t, LAMBDA col :
            [col EXCEPT !.cells = AsSeq([r \in 1..Len(idx) |-> col.cells[idx[r]]])])

(***************************************************************************)
(* quality.py: the remaining metrics and the scorer.                       *)
(***************************************************************************)
\* the score of one column: unique_count / denom, 1.0 for an empty column
ColumnUniqueness(col) ==
    LET present == DropNA(col.cells)
    IN  IF Len(present) = 0 THEN <<1, 1>>
        ELSE Frac(NUnique(col.cells), Len(present))

_compute_uniqueness(df_norm) ==
    LET scores == AsSeq([k \in 1..Len(df_norm) |-> ColumnUniqueness(df_norm[k])])
    IN  IF Len(scores) > 0 THEN FracMul(FracSum(scores), <<1, Len(scores)>>)
        ELSE <<1, 1>>

InvalidTokens == {"invalid", "error", "nan", "null"}

_compute_validity(df_norm) ==
    LET total == NCols(df_norm) * NRows(df_norm)
        invalid == CountCells(df_norm, LAMBDA c : Flattened(c) \in InvalidTokens)
    IN  IF total = 0 THEN <<1, 1>> ELSE Frac(total - invalid, total)

\* pd.to_datetime(errors="coerce") gives a timestamp for this cell: a
\* number is read as an epoch offset, a text as a date
ParsesAsDatetime(c) == IsNum(c) \/ (IsStr(c) /\ ParseDate(c[2], FALSE) # NaT)

_compute_timeliness(df_norm) ==
    LET meaningful(c) == ~IsNA(c) /\ StrStrip(PyStr(c)) # ""
        total_cells == CountCells(df_norm, meaningful)
        parsed_count == CountCells(df_norm, LAMBDA c : meaningful(c) /\ ParsesAsDatetime(c))
    IN  IF total_cells = 0 THEN <<1, 1>> ELSE Frac(parsed_count, total_cells)

PerfectScores ==
    [completeness |-> 100000, safety |-> 100000, consistency |-> 100000,
     uniqueness |-> 100000, validity |-> 100000, timeliness |-> 100000,
     quality |-> 100000]

\* round(quality, 3) in thousandths of a percent; the float nan stays nan
\* round(float("nan"), 3) is nan; the reported numbers are never negative,
\* so nan is written as -1
NaNQuality == 0 - 1

RoundQuality(x) == IF IsNaNWeight(x) THEN NaNQuality ELSE Round3(x)

\* the loop over dims: quality += v * w
WeightedQuality(v, weights) ==
    WeightAdd(WeightMul(v["completeness"], weights["completeness"]),
    WeightAdd(WeightMul(v["safety"], weights["safety"]),
    WeightAdd(WeightMul(v["consistency"], weights["consistency"]),
    WeightAdd(WeightMul(v["uniqueness"], weights["uniqueness"]),
    WeightAdd(WeightMul(v["validity"], weights["validity"]),
              WeightMul(v["timeliness"], weights["timeliness"]))))))

score_dataframe(t) ==
    IF NCols(t) = 0 \/ NRows(t) = 0 THEN PerfectScores
    ELSE
    LET df_norm == _normalize_missing_values(t)
        total_cells == NCols(df_norm) * NRows(df_norm)
        non_missing == CountCells(df_norm, LAMBDA c : ~IsNA(c))
        completeness == Frac(non_missing, total_cells)
        unsafe_count == CountCells(df_norm, LAMBDA c : Flattened(c) = "not-a-date")
        safe_count == total_cells - unsafe_count
        safety == Frac(safe_count, total_cells)
        consistency == _compute_consistency(df_norm)
        uniqueness == _compute_uniqueness(df_norm)
        validity == _compute_validity(df_norm)
        timeliness == _compute_timeliness(df_norm)
        weights == get_scoring_weights
        v == [completeness |-> completeness, safety |-> safety,
              consistency |-> consistency, uniqueness |-> uniqueness,
              validity |-> validity, timeliness |-> timeliness]
        quality == WeightedQuality(v, weights)
    IN  [completeness |-> Round3(completeness), safety |-> Round3(safety),
         consistency |-> Round3(consistency), uniqueness |-> Round3(uniqueness),
         validity |-> Round3(validity), timeliness |-> Round3(timeliness),
         quality |-> RoundQuality(quality)]

(***************************************************************************)
(* validator.py                                                            *)
(* An issue is [title, type, severity, columns]; its description and       *)
(* suggested_fix are advisory texts that no code reads.                    *)
(***************************************************************************)
Issue(title, type, severity, columns) ==
    [title |-> title, type |-> type, severity |-> severity, columns |-> columns]

RECURSIVE Flatten(_)
\* the concatenation of a sequence of sequences
Flatten(qs) == IF qs = <<>> THEN <<>> ELSE Head(qs) \o Flatten(Tail(qs))

LocalChars == Letters \cup Digits \cup {".", "_", "%", "+", "-"}

DomainChars == Letters \cup Digits \cup {".", "-"}

\* re.match of ^[A-Za-z0-9._%+-]+@[A-Za-z0-9.-]+\.[A-Za-z]{2,}$
EmailPattern(s) ==
    \E i \in 2..Len(s) :
        /\ Ch(s, i) = "@"
        /\ AllIn(s, 1, i - 1, LocalChars)
        /\ \E j \in (i + 2)..(Len(s) - 2) :
               /\ Ch(s, j) = "."
               /\ AllIn(s, i + 1, j - 1, DomainChars)
               /\ AllIn(s, j + 1, Len(s), Letters)

_email_re(s) == EmailPattern(s)

\* faulty variant: without the test pct > 0
_high_missing_or_none(t, thresh) ==
    Flatten([k \in 1..Len(t) |->
        LET c == t[k].name
            n == Len(t[k].cells)
            missing == CountWhere(t[k].cells, IsNA)
        IN  IF n > 0 /\ missing * thresh[2] >= thresh[1] * n
            THEN << Issue("High missing rate in column '" \o c \o "'", "missing_high",
                          IF 2 * missing >= n THEN "high" ELSE "medium", <<c>>) >>
            ELSE <<>>])

\* thresh is a fraction <<numerator, denominator>>
_high_missing(t, thresh) ==
    Flatten([k \in 1..Len(t) |->
        LET c == t[k].name
            n == Len(t[k].cells)
            missing == CountWhere(t[k].cells, IsNA)
        IN  \* pct = missing / n; pct >= thresh and pct > 0
            IF n > 0 /\ missing * thresh[2] >= thresh[1] * n /\ missing > 0
            THEN << Issue("High missing rate in column '" \o c \o "'", "missing_high",
                          IF 2 * missing >= n THEN "high" ELSE "medium", <<c>>) >>
            ELSE <<>>])

\* c.lower() for the column names of the explored tables
LowerName(c) == StrLower(c)

_duplicates(t) ==
    Flatten([k \in 1..Len(t) |->
        LET c == t[k].name
            ndup == Cardinality(Duplicated(t, {c}))
        IN  IF LowerName(c) \in {"id", "user_id", "userid"} /\ ndup > 0
            THEN << Issue("Duplicate values in id column '" \o c \o "'", "duplicate_rows",
                          "high", <<c>>) >>
            ELSE <<>>])

_dtype_mismatch(t) ==
    Flatten([k \in 1..Len(t) |->
        LET c == t[k].name
            n == NRows(t)
            coerced == ToNumeric(t[k])
            num_non_na == CountWhere(coerced.cells, LAMBDA x : ~IsNA(x))
        IN  \* n > 0 and num_non_na / n >= 0.8 and num_non_na < n
            IF ~IsNumericDtype(t[k]) /\ n > 0 /\ 5 * num_non_na >= 4 * n /\ num_non_na < n
            THEN << Issue("Possible numeric column stored as object '" \o c \o "'",
                          "dtype_mismatch", "medium", <<c>>) >>
            ELSE <<>>])

_invalid_emails(t) ==
    Flatten([k \in 1..Len(t) |->
        LET c == t[k].name
            present == DropNA(t[k].cells)
            total == Len(present)
            valid == CountWhere(present, LAMBDA x : _email_re(PyStr(x)))
            invalid == total - valid
        IN  IF /\ t[k].dtype = "object"
               /\ \E i \in 1..total : StrContains(PyStr(present[i]), "@")
               /\ total # 0
               /\ invalid > 0
            THEN << Issue("Invalid email addresses in '" \o c \o "'", "invalid_email",
                          \* "medium" if invalid/total < 0.2 else "high"
                          IF 5 * invalid < total THEN "medium" ELSE "high", <<c>>) >>
            ELSE <<>>])

_date_parse_issues(t) ==
    Flatten([k \in 1..Len(t) |->
        LET c == t[k].name
            sample == Take(DropNA(t[k].cells), 200)
            n_parsed == CountWhere(sample, LAMBDA x : ParseDate(PyStr(x), FALSE) # NaT)
        IN  IF t[k].dtype = "object" /\ Len(sample) > 0
               /\ n_parsed > 0 /\ n_parsed < Len(sample)
            THEN << Issue("Column '" \o c \o "' contains partially parseable dates",
                          "date_partial_parse", "medium", <<c>>) >>
            ELSE <<>>])

_constant_columns(t) ==
    Flatten([k \in 1..Len(t) |->
        LET c == t[k].name
        IN  IF NUnique(t[k].cells) <= 1
            THEN << Issue("Constant or near-constant column '" \o c \o "'",
                          "constant_column", "low", <<c>>) >>
            ELSE <<>>])

RECURSIVE SumSeq(_)
SumSeq(q) == IF q = <<>> THEN 0 ELSE Head(q) + SumSeq(Tail(q))

\* |x - mean| / std > 4 with the sample standard deviation, cleared of
\* divisions: with dev[i] = n * x[i] - sum(x),
\*   std = 0      iff  every dev[i] = 0
\*   z[i] > 4     iff  (n - 1) * dev[i]^2 > 16 * sum(dev[j]^2)
_outliers(t) ==
    Flatten([k \in 1..Len(t) |->
        LET c == t[k].name
            ser == DropNA(t[k].cells)
            n == Len(ser)
            x == AsSeq([i \in 1..n |-> Halves(ser[i])])
            total == SumSeq(x)
            dev == AsSeq([i \in 1..n |-> n * x[i] - total])
            sq == SumSeq([i \in 1..n |-> dev[i] * dev[i]])
            n_out == Cardinality({i \in 1..n : (n - 1) * dev[i] * dev[i] > 16 * sq})
        IN  IF IsNumericDtype(t[k]) /\ n >= 5 /\ sq # 0 /\ n_out > 0
            THEN << Issue("Extreme outliers in '" \o c \o "'", "outliers", "medium", <<c>>) >>
            ELSE <<>>])

\* the list detect_issues builds before it removes duplicates
detect_out(t, missing_thresh) ==
    _high_missing(t, missing_thresh) \o _duplicates(t) \o _dtype_mismatch(t)
        \o _invalid_emails(t) \o _date_parse_issues(t) \o _constant_columns(t)
        \o _outliers(t)

IssueKey(it) == <<it.title, it.columns>>

\* faulty variant: the membership test of the loop is inverted
UniqIssuesInverted(out) ==
    SelectSeq([i \in 1..Len(out) |-> <<i, out[i]>>],
              LAMBDA p : ~(\A j \in 1..(p[1] - 1) : IssueKey(out[j]) # IssueKey(p[2])))

\* the loop over out with the set seen
UniqIssues(out) ==
    SelectSeq([i \in 1..Len(out) |-> <<i, out[i]>>],
              LAMBDA p : \A j \in 1..(p[1] - 1) : IssueKey(out[j]) # IssueKey(p[2]))

detect_issues(t, missing_thresh) ==
    LET uniq == UniqIssues(detect_out(t, missing_thresh))
    IN  AsSeq([i \in 1..Len(uniq) |-> uniq[i][2]])

(***************************************************************************)
(* fixer.py                                                                *)
(***************************************************************************)
EMAIL_RE(s) == EmailPattern(s)

\* called on the str() of a cell, so never on None
_is_valid_email(s) == EMAIL_RE(s)

_coerce_numeric_if_mostly(ser) ==
    LET coerced == ToNumeric(ser)
        notna == CountWhere(coerced.cells, LAMBDA x : ~IsNA(x))
        len == IF Len(ser.cells) > 1 THEN Len(ser.cells) ELSE 1
    IN  \* notna / max(1, len(ser)) >= 0.8
        IF 5 * notna >= 4 * len THEN coerced ELSE ser

NullMarkers == {"NA", "N/A", "null", "None"}

\* ser.replace({"NA": None, "N/A": None, "null": None, "None": None}) on one cell
ReplaceNullMarkers(c) == IF IsStr(c) /\ c[2] \in NullMarkers THEN None ELSE c

\* faulty variant: no dayfirst retry
ParsedWithoutRetry(raw) == ParseDate(PyStr(raw), FALSE)

\* parsed for one cell, once the dayfirst retry has run on what the first
\* parse left unparsed
ParsedWithRetry(raw) ==
    LET first == ParseDate(PyStr(raw), FALSE)
        mask_not_parsed == first = NaT /\ ~IsNA(raw)
    IN  IF mask_not_parsed THEN ParseDate(PyStr(raw), TRUE) ELSE first

\* faulty variant: an unparsed entry becomes missing instead of keeping
\* its original value
StandardizeDateCoercing(original) ==
    LET raw == ReplaceNullMarkers(original)
        parsed == ParsedWithRetry(raw)
    IN  IF parsed # NaT THEN StrCell(Strftime(parsed)) ELSE None

\* what _standardize_dates_series makes of one cell
StandardizeDate(original) ==
    LET raw == ReplaceNullMarkers(original)
        parsed == ParsedWithRetry(raw)
        formatted == IF parsed # NaT THEN StrCell(Strftime(parsed)) ELSE original
    IN  IF ~IsNA(raw) THEN formatted ELSE None

_standardize_dates_series(ser) ==
    IF Len(ser.cells) = 0 THEN ser
    ELSE [MapCells(ser, StandardizeDate) EXCEPT !.dtype = "object"]

\* needle in hay, for Python's substring test
HasSubstring(hay, needle) ==
    \E i \in 1..(Len(hay) - Len(needle) + 1) : SubSeq(hay, i, i + Len(needle) - 1) = needle

IssuesOfType(its, typ) == SelectSeq(its, LAMBDA it : it.type = typ)

\* the union of the columns of the issues of one type
IssueColumns(its, typ) ==
    UNION {SeqToSet(its[i].columns) : i \in {j \in 1..Len(its) : its[j].type = typ}}

_guess_date_like_columns(t, its) ==
    LET named == {t[k].name : k \in {j \in 1..Len(t) :
                      \E w \in {"date", "time", "timestamp", "close", "expected_close"} :
                          HasSubstring(StrLower(t[j].name), w)}}
        flagged == IssueColumns(its, "date_partial_parse") \cap ColumnNames(t)
        sniffed == {t[k].name : k \in {j \in 1..Len(t) :
                       LET ser == Take(DropNA(t[j].cells), 1000)
                           n_parsed == CountWhere(ser,
                                           LAMBDA x : ParseDate(PyStr(x), FALSE) # NaT)
                       IN  /\ t[j].name \notin named \cup flagged
                           /\ Len(ser) > 0
                           \* parse_frac >= 0.05
                           /\ 20 * n_parsed >= Len(ser)}}
    IN  named \cup flagged \cup sniffed

\* the k-th smallest of a non-empty sequence of integers
KthSmallest(x, k) ==
    CHOOSE v \in SeqToSet(x) :
        /\ Cardinality({i \in 1..Len(x) : x[i] < v}) < k
        /\ Cardinality({i \in 1..Len(x) : x[i] <= v}) >= k

\* Series.median(skipna=True) in halves, of a column with a value; the
\* mean of the two middle values is exact for integral data
Median(cells) ==
    LET present == DropNA(cells)
        x == AsSeq([i \in 1..Len(present) |-> Halves(present[i])])
        n == Len(x)
    IN  IF n % 2 = 1 THEN KthSmallest(x, (n + 1) \div 2)
        ELSE (KthSmallest(x, n \div 2) + KthSmallest(x, n \div 2 + 1)) \div 2

\* the missing-high transform of one column
FillMissing(col) ==
    IF IsNumericDtype(col)
    THEN IF Len(DropNA(col.cells)) = 0 THEN col
         ELSE LET med == Median(col.cells)
              IN  MapCells(col, LAMBDA c : IF IsNA(c) THEN FltCell(med) ELSE c)
    ELSE MapCells(col, LAMBDA c : IF IsNA(c) THEN StrCell("") ELSE c)

\* faulty variant: every invalid value is masked, with or without an "@"
MaskEveryInvalidEmail(col) ==
    MapCells(col, LAMBDA c : IF ~_is_valid_email(PyStr(c)) THEN StrCell("") ELSE c)

\* faulty variant: every value with an "@" is masked, valid or not
MaskEveryAddress(col) ==
    MapCells(col, LAMBDA c : IF StrContains(PyStr(c), "@") THEN StrCell("") ELSE c)

\* the invalid-email masking of one column
MaskInvalidEmails(col) ==
    MapCells(col, LAMBDA c :
        IF StrContains(PyStr(c), "@") /\ ~_is_valid_email(PyStr(c)) THEN StrCell("")
        ELSE c)

\* each transform runs over the columns its set names and the table has
TransformColumns(t, cols, F(_)) ==
    MapColumns(t, LAMBDA col : IF col.name \in cols THEN F(col) ELSE col)

\* cols_date_like: the guessed columns, and expected_close when present
DateLikeColumns(t, its) ==
    _guess_date_like_columns(t, its) \cup ({"expected_close"} \cap ColumnNames(t))

\* pre_dedupe after the missing-high, invalid-email and dtype transforms
BeforeDates(t, its) ==
    LET filled == TransformColumns(t, IssueColumns(its, "missing_high"), FillMissing)
        masked == TransformColumns(filled, IssueColumns(its, "invalid_email"),
                                   MaskInvalidEmails)
    IN  TransformColumns(masked, IssueColumns(its, "dtype_mismatch"),
                         _coerce_numeric_if_mostly)

\* pre_dedupe once date standardization has run too; nothing in the
\* explored tables makes _standardize_dates_series raise
PreDedupe(t, its) ==
    TransformColumns(BeforeDates(t, its), DateLikeColumns(t, its),
                     _standardize_dates_series)

\* fillna("__QORIQ_NAN__").astype(str) of one cell
Repr(c) == IF IsNA(c) THEN "__QORIQ_NAN__" ELSE PyStr(c)

\* faulty variant: the texts are compared without the fillna sentinel
CellChangedByText(orig, pre, k, i) == PyStr(orig[k].cells[i]) # PyStr(pre[k].cells[i])

\* ~before.eq(after) at row i of column k
CellChanged(orig, pre, k, i) == Repr(orig[k].cells[i]) # Repr(pre[k].cells[i])

PerColumnChanged(orig, pre) ==
    [c \in ColumnNames(orig) |->
        Cardinality({i \in 1..NRows(orig) : CellChanged(orig, pre, ColIndex(orig, c), i)})]

\* the non-empty column tuples of the duplicate_rows issues
DuplicateColSets(its) ==
    LET dups == IssuesOfType(its, "duplicate_rows")
    IN  SelectSeq(AsSeq([i \in 1..Len(dups) |-> dups[i].columns]),
                  LAMBDA cols : Len(cols) > 0)

UnionCols(its) ==
    UNION {SeqToSet(DuplicateColSets(its)[i]) : i \in 1..Len(DuplicateColSets(its))}

\* the rows drop_duplicates keeps of pre_dedupe (all of them without a
\* duplicate_rows issue)
KeptRows(pre, its) ==
    IF Len(DuplicateColSets(its)) > 0
    THEN (1..NRows(pre)) \ Duplicated(pre, UnionCols(its))
    ELSE 1..NRows(pre)

\* the increasing sequence of the members of a set of row positions
RowSeq(n, rows) == SelectSeq(AsSeq([i \in 1..n |-> i]), LAMBDA i : i \in rows)

\* the index of any_changed_mask where it is True
ChangedRowIndices(orig, pre) ==
    RowSeq(NRows(orig),
           {i \in 1..NRows(orig) : \E k \in 1..Len(orig) : CellChanged(orig, pre, k, i)})

\* faulty variant: the removed rows are left out of the total
RowsChangedOnly(changed_row_indices, removed_rows_df) == Len(changed_row_indices)

RowsChangedTotal(changed_row_indices, removed_rows_df) ==
    Len(changed_row_indices) + Len(removed_rows_df.index)

\* one record of the preview: the 0-based row label, and the (before, after)
\* pair of each column that differs
PreviewRecord(orig, pre, idx) ==
    LET differs(k) ==
            LET bval == orig[k].cells[idx]
                aval == pre[k].cells[idx]
            IN  ~((IsNA(bval) /\ IsNA(aval)) \/ PyStr(bval) = PyStr(aval))
        \* None if pd.isna(val) else val
        shown(val) == IF IsNA(val) THEN None ELSE val
    IN  [_orig_index |-> idx - 1,
         cells |-> [c \in {orig[k].name : k \in {j \in 1..Len(orig) : differs(j)}} |->
                       <<shown(orig[ColIndex(orig, c)].cells[idx]),
                         shown(pre[ColIndex(orig, c)].cells[idx])>>]]

ChangesPreview(orig, pre, changed_row_indices, max_preview_rows) ==
    LET preview_indices == Take(changed_row_indices, max_preview_rows)
    IN  SelectSeq(AsSeq([p \in 1..Len(preview_indices) |->
                            PreviewRecord(orig, pre, preview_indices[p])]),
                  LAMBDA r : DOMAIN r.cells # {})

\* an empty DataFrame()
EmptyFrame == [index |-> <<>>, data |-> <<>>]

\* the rows of t at the (1-based) positions rows, under their original
\* 0-based index labels
RowsAt(t, rows) ==
    [index |-> AsSeq([r \in 1..Len(RowSeq(NRows(t), rows)) |->
                         RowSeq(NRows(t), rows)[r] - 1]),
     data |-> SelectRows(t, rows)]

\* the value returned by generate_naive_clean_with_summary, or the
\* exception it lets escape
generate_naive_clean_with_summary(t, its, max_preview_rows) ==
    IF NRows(t) = 0
    THEN [raised |-> "",
          cleaned_df |-> t,
          summary |-> [per_column_changed |-> [c \in {} |-> 0], rows_removed |-> 0,
                       rows_changed_total |-> 0, preview_changed_rows_returned |-> 0,
                       preview_changed_limit |-> max_preview_rows],
          changes_df |-> <<>>,
          removed_rows_df |-> EmptyFrame]
    ELSE
    LET orig == t
        pre_dedupe == PreDedupe(orig, its)
        per_column_changed == PerColumnChanged(orig, pre_dedupe)
        dedupe == Len(DuplicateColSets(its)) > 0
        dup_mask == IF dedupe THEN Duplicated(orig, UnionCols(its)) ELSE {}
        removed_rows_df == RowsAt(orig, dup_mask)
        cleaned_df == SelectRows(pre_dedupe, KeptRows(pre_dedupe, its))
        changed_row_indices == ChangedRowIndices(orig, pre_dedupe)
        changes_df == ChangesPreview(orig, pre_dedupe, changed_row_indices, max_preview_rows)
    IN  IF dedupe /\ ~(UnionCols(its) \subseteq ColumnNames(orig))
        THEN \* DataFrame.duplicated raises KeyError on a subset column it lacks
             [raised |-> "KeyError"]
        ELSE [raised |-> "",
              cleaned_df |-> cleaned_df,
              summary |->
                  [per_column_changed |->
                       [c \in {x \in ColumnNames(orig) : per_column_changed[x] > 0} |->
                           per_column_changed[c]],
                   rows_removed |-> Len(removed_rows_df.index),
                   rows_changed_total |-> RowsChangedTotal(changed_row_indices,
                                                           removed_rows_df),
                   preview_changed_rows_returned |-> Len(changes_df),
                   preview_changed_limit |-> max_preview_rows,
                   date_columns_standardized |-> DateLikeColumns(orig, its)],
              changes_df |-> changes_df,
              removed_rows_df |-> removed_rows_df]

(***************************************************************************)
(* The explored tables.  A column is built the way the DataFrame           *)
(* constructor types it: numbers and NaN give int64, or float64 once a NaN *)
(* is present; anything else gives object.                                 *)
(***************************************************************************)
InferColumn(name, cells) ==
    IF \A i \in 1..Len(cells) : cells[i][1] \in {"int", "nan"}
    THEN IF Len(cells) > 0 /\ \A i \in 1..Len(cells) : cells[i][1] = "int"
         THEN Column(name, "int64", cells)
         ELSE IF Len(cells) = 0 THEN Column(name, "object", cells)
         ELSE MapCells(Column(name, "float64", cells),
                       LAMBDA c : IF c[1] = "int" THEN FltCell(2 * c[2]) ELSE c)
    ELSE Column(name, "object", cells)

ColumnsOver(name, domain, n) == {InferColumn(name, cells) : cells \in [1..n -> domain]}

EmailCells ==
    {StrCell("a@b.com"), StrCell("not-an-email"), StrCell("c@d.org"), StrCell("bad@")}

IdCells == {IntCell(1), IntCell(2)}

DealCells == {StrCell("15/03/2023"), StrCell("not-a-date")}

DateCells == {StrCell("2023-01-15"), StrCell("15/03/2023"), StrCell("invalid-date"),
              StrCell("None"), NaN}

NoteCells == {StrCell(" "), StrCell(""), StrCell("x"), NaN}

ValCells == {StrCell("1"), StrCell("x"), StrCell(""), NaN}

CloseCells == {StrCell("1"), StrCell("2023-03-04"), StrCell("invalid-date")}

\* tables of n rows with an email column, an id and a date column, a date
\* column alone, an id column with missing cells, or two identifier columns
Tables(n) ==
    {<<c>> : c \in ColumnsOver("email", EmailCells, n)}
      \cup {<<a, b>> : a \in ColumnsOver("id", IdCells, n),
                       b \in ColumnsOver("expected_close", DealCells, n)}
      \cup {<<c>> : c \in ColumnsOver("expected_close", DateCells, n)}
      \cup {<<c>> : c \in ColumnsOver("id", IdCells \cup {NaN}, n)}
      \cup {<<a, b>> : a \in ColumnsOver("id", IdCells, n),
                       b \in ColumnsOver("user_id", IdCells, n)}

\* tables of n rows with a column of blank texts, or an email column with
\* missing cells
SmallTables(n) ==
    {<<c>> : c \in ColumnsOver("note", NoteCells, n)}
      \cup {<<c>> : c \in ColumnsOver("email", EmailCells \cup {NaN}, n)}

\* tables of n rows with a column of mostly numeric texts; the 80% rule of
\* the dtype heuristic needs five rows to tell "mostly" from "all"
NumericTextTables(n) ==
    {<<c>> : c \in ColumnsOver("val", ValCells, n)}
      \cup {<<c>> : c \in ColumnsOver("close", CloseCells, n)}

\* missing_threshold values the caller passes, as fractions; 0.2 is the default
Thresholds == {<<0, 1>>, <<1, 5>>, <<1, 1>>}

\* max_preview_rows values the caller passes; 200 is the default
PreviewLimits == {1, 200}

NotScored ==
    [completeness |-> 0, safety |-> 0, consistency |-> 0, uniqueness |-> 0,
     validity |-> 0, timeliness |-> 0, quality |-> 0]

NotCalled == [raised |-> "not called"]

\* set_scoring_weights has not been called
NoArgument == [is_dict |-> FALSE, items |-> <<>>]

(***************************************************************************)
(* The pipeline of the application and of the regression tests: score the  *)
(* loaded table, detect its issues, clean it, score the cleaned table.     *)
(***************************************************************************)
Init ==
    /\ df \in UNION {Tables(n) : n \in 0..(MaxRows - 2)}
              \cup UNION {NumericTextTables(n) : n \in 0..MaxRows}
              \cup UNION {SmallTables(n) : n \in 0..MaxSmallRows}
    /\ pc = "loaded"
    /\ quality_before = NotScored
    /\ missing_threshold = <<1, 5>>
    /\ issues = <<>>
    /\ result = NotCalled
    /\ quality_after = NotScored
    /\ scoring_weights = _SCORING_WEIGHTS
    /\ set_calls = 0
    /\ set_arg = NoArgument
    /\ set_raised = ""
    /\ issues_again = <<>>
    /\ result_again = NotCalled

\* The frames score_dataframe leaves behind: df is the caller's object, and
\* df_norm a new one (df.copy(), and replace returns a new frame).
FramesAfterScore(t) ==
    [df |-> t, df_norm |-> _normalize_missing_values(t)]

\* faulty variant: the transforms are applied to the caller's object (orig
\* and pre_dedupe are the frame df itself, not copies of it)
FramesAfterCleanAliased(t, its) ==
    IF NRows(t) = 0 THEN [df |-> t, orig |-> t, pre_dedupe |-> t]
    ELSE [df |-> PreDedupe(t, its), orig |-> PreDedupe(t, its),
          pre_dedupe |-> PreDedupe(t, its)]

\* The frames generate_naive_clean_with_summary leaves behind: df is the
\* caller's object, orig = df.copy() and pre_dedupe = orig.copy() are new
\* objects, and every transform assigns into pre_dedupe.
FramesAfterClean(t, its) ==
    IF NRows(t) = 0 THEN [df |-> t, orig |-> t, pre_dedupe |-> t]
    ELSE [df |-> t, orig |-> t, pre_dedupe |-> PreDedupe(t, its)]

ScoreBefore ==
    /\ pc = "loaded"
    /\ quality_before' = score_dataframe(df)
    /\ df' = FramesAfterScore(df).df
    /\ pc' = "scored"
    /\ UNCHANGED <<missing_threshold, issues, result, quality_after>>
    /\ UNCHANGED weight_vars
    /\ UNCHANGED again_vars

DetectIssues(thresh) ==
    /\ pc = "scored"
    /\ \/ thresh = <<1, 5>>
       \/ thresh = <<0, 1>> /\ NRows(df) <= MaxRows - 2
       \/ NRows(df) <= MaxSmallRows
    /\ missing_threshold' = thresh
    /\ issues' = detect_issues(df, thresh)
    /\ pc' = "detected"
    /\ UNCHANGED <<df, quality_before, result, quality_after>>
    /\ UNCHANGED weight_vars
    /\ UNCHANGED again_vars

\* the issue types generate_naive_clean_with_summary acts on
HandledTypes ==
    {"missing_high", "invalid_email", "dtype_mismatch", "date_partial_parse",
     "duplicate_rows"}

\* an issue on a column the table does not have
StaleIssue(typ) == Issue("Stale issue", typ, "low", <<"ghost">>)

IsStale(it) == it.columns = <<"ghost">>

HasStaleIssue(its) == \E i \in 1..Len(its) : IsStale(its[i])

WithoutStaleIssues(its) == SelectSeq(its, LAMBDA it : ~IsStale(it))

\* the caller passes an issue list that names a column absent from df
AddStaleIssue(typ) ==
    /\ pc = "detected"
    /\ NRows(df) <= MaxSmallRows
    /\ missing_threshold = <<1, 5>>
    /\ ~HasStaleIssue(issues)
    /\ issues' = Append(issues, StaleIssue(typ))
    /\ pc' = "edited"
    /\ UNCHANGED <<df, quality_before, missing_threshold, result, quality_after>>
    /\ UNCHANGED weight_vars
    /\ UNCHANGED again_vars

\* the caller passes only the detected issues of one type
PassIssuesOfType(typ) ==
    /\ pc = "detected"
    /\ NRows(df) <= MaxSmallRows
    /\ missing_threshold = <<1, 5>>
    /\ IssuesOfType(issues, typ) # <<>>
    /\ IssuesOfType(issues, typ) # issues
    /\ issues' = IssuesOfType(issues, typ)
    /\ pc' = "edited"
    /\ UNCHANGED <<df, quality_before, missing_threshold, result, quality_after>>
    /\ UNCHANGED weight_vars
    /\ UNCHANGED again_vars

Clean(max_preview_rows) ==
    /\ pc \in {"detected", "edited"}
    /\ max_preview_rows = 200 \/ NRows(df) <= MaxSmallRows
    /\ result' = generate_naive_clean_with_summary(df, issues, max_preview_rows)
    /\ df' = FramesAfterClean(df, issues).df
    /\ pc' = "cleaned"
    /\ UNCHANGED <<quality_before, missing_threshold, issues, quality_after>>
    /\ UNCHANGED weight_vars
    /\ UNCHANGED again_vars

ScoreAfter ==
    /\ pc = "cleaned"
    /\ result.raised = ""
    /\ quality_after' = score_dataframe(result.cleaned_df)
    /\ result' = [result EXCEPT !.cleaned_df = FramesAfterScore(@).df]
    /\ pc' = "done"
    /\ UNCHANGED <<df, quality_before, missing_threshold, issues>>
    /\ UNCHANGED weight_vars
    /\ UNCHANGED again_vars

\* the fixer run a second time, on the table it returned: detect_issues on
\* the cleaned table, then clean with those issues
CleanAgain ==
    /\ pc = "done"
    /\ missing_threshold = <<1, 5>>
    /\ issues = detect_issues(df, missing_threshold)
    /\ issues_again' = detect_issues(result.cleaned_df, missing_threshold)
    /\ result_again' = generate_naive_clean_with_summary(
                            result.cleaned_df, issues_again',
                            result.summary.preview_changed_limit)
    /\ pc' = "recleaned"
    /\ UNCHANGED <<df, quality_before, missing_threshold, issues, result, quality_after>>
    /\ UNCHANGED weight_vars

Next ==
    \/ ScoreBefore
    \/ \E thresh \in Thresholds : DetectIssues(thresh)
    \/ \E typ \in HandledTypes : AddStaleIssue(typ)
    \/ \E typ \in HandledTypes : PassIssuesOfType(typ)
    \/ \E max_preview_rows \in PreviewLimits : Clean(max_preview_rows)
    \/ ScoreAfter
    \/ CleanAgain

Spec == Init /\ [][Next]_vars

(***************************************************************************)
(* The scorer under changing weights, as the tests of quality.py drive it: *)
(* calls of set_scoring_weights, then score_dataframe.                     *)
(***************************************************************************)
DictArg(items) == [is_dict |-> TRUE, items |-> items]

\* {"completeness": 0.5, "safety": 0.5}
RestoreDefaultsArg == DictArg([completeness |-> <<1, 2>>, safety |-> <<1, 2>>])

\* completeness 1.0 and the five others 0.0
CompletenessOnlyArg ==
    DictArg([d \in DimSet |-> IF d = "completeness" THEN <<1, 1>> ELSE <<0, 1>>])

WeightArgs ==
    {RestoreDefaultsArg,
     CompletenessOnlyArg,
     \* all six keys, not summing to 1
     DictArg([d \in DimSet |-> IF d = "validity" THEN <<3, 1>> ELSE <<1, 2>>]),
     DictArg([consistency |-> <<1, 1>>]),
     DictArg([uniqueness |-> <<1, 2>>, timeliness |-> <<3, 2>>]),
     DictArg([safety |-> <<-1, 1>>]),
     DictArg([completeness |-> <<1, 1>>, bogus |-> <<1, 1>>]),
     DictArg([completeness |-> <<0, 1>>, safety |-> <<0, 1>>]),
     DictArg([validity |-> NaNWeight]),
     \* the list [0.5, 0.5], its positions written as keys
     [is_dict |-> FALSE, items |-> [k \in {"0", "1"} |-> <<1, 2>>]]}

\* _make_test_df() of tests/test_quality.py
TestTable ==
    << InferColumn("a", <<StrCell("2020-01-01"), StrCell(""), StrCell("not-a-date")>>),
       InferColumn("b", <<StrCell("x"), StrCell("y"), StrCell("")>>) >>

WeightTables ==
    {TestTable,
     << InferColumn("id", <<IntCell(1), IntCell(1), IntCell(2)>>),
        InferColumn("expected_close", <<StrCell("15/03/2023"), StrCell("null"), NaN>>) >>,
     << InferColumn("val", <<>>) >>}

InitWeights ==
    /\ df \in WeightTables
    /\ pc = "loaded"
    /\ quality_before = NotScored
    /\ missing_threshold = <<1, 5>>
    /\ issues = <<>>
    /\ result = NotCalled
    /\ quality_after = NotScored
    /\ scoring_weights = _SCORING_WEIGHTS
    /\ set_calls = 0
    /\ set_arg = NoArgument
    /\ set_raised = ""
    /\ issues_again = <<>>
    /\ result_again = NotCalled

SetScoringWeights(weights) ==
    /\ pc = "loaded"
    /\ set_calls < MaxSetCalls
    /\ set_calls' = set_calls + 1
    /\ set_arg' = weights
    /\ set_raised' = set_scoring_weights(scoring_weights, weights).raised
    /\ scoring_weights' = set_scoring_weights(scoring_weights, weights).weights
    /\ UNCHANGED <<df, pc, quality_before, missing_threshold, issues, result, quality_after>>
    /\ UNCHANGED again_vars

NextWeights ==
    \/ \E weights \in WeightArgs : SetScoringWeights(weights)
    \/ ScoreBefore

SpecWeights == InitWeights /\ [][NextWeights]_vars

TypeOK == pc \in {"loaded", "scored", "detected", "edited", "cleaned", "done", "recleaned"}

(***************************************************************************)
(* Properties.                                                             *)
(***************************************************************************)
\* detect_issues was called with its default missing_threshold, 0.2
DefaultDetection == missing_threshold = <<1, 5>>

\* clean has returned a result (it raised nothing)
Cleaned == pc \in {"cleaned", "done"} /\ result.raised = ""

\* the original row position of each row of the cleaned table
RetainedRows == RowSeq(NRows(df), KeptRows(PreDedupe(df, issues), issues))

\* C1: the overall quality of the cleaned table is never below the overall
\* quality of the input table
C1_OverallNeverDecreases ==
    (pc = "done" /\ DefaultDetection) => quality_after.quality >= quality_before.quality

\* C2: the completeness of the cleaned table is never below the
\* completeness of the input table
C2_CompletenessNeverDecreases ==
    (pc = "done" /\ DefaultDetection) => quality_after.completeness >= quality_before.completeness

\* C3: the safety of the cleaned table is never below the safety of the
\* input table, deduplication included
C3_SafetyNeverDecreases ==
    (pc = "done" /\ DefaultDetection) => quality_after.safety >= quality_before.safety

\* the text fails the default parse and the dayfirst retry
FailsBothParses(s) == ParseDate(s, FALSE) = NaT /\ ParseDate(s, TRUE) = NaT

IsNullMarker(c) == IsStr(c) /\ c[2] \in NullMarkers

\* P(c, out) holds of every cell c that reaches date standardization in a
\* date-like column, on a row the cleaned table retains, and of the cell out
\* the cleaned table holds there
DateCellsSatisfy(P(_, _)) ==
    (Cleaned /\ NRows(df) > 0) =>
        LET before == BeforeDates(df, issues)
            kept == RetainedRows
        IN  \A k \in 1..Len(df) :
                df[k].name \in result.summary.date_columns_standardized =>
                    \A r \in 1..Len(kept) :
                        P(before[k].cells[kept[r]], result.cleaned_df[k].cells[r])

C6_NoNewMissingCells ==
    (Cleaned /\ DefaultDetection) =>
        CountCells(result.cleaned_df, IsNA)
            <= CountCells(SelectRows(df, SeqToSet(RetainedRows)), IsNA)

\* the table with the cell at row i of column k replaced by c
WithCell(t, k, i, c) == [t EXCEPT ![k].cells[i] = c]

SameMissingScores(a, b) ==
    /\ a.completeness = b.completeness
    /\ a.consistency = b.consistency
    /\ a.quality = b.quality

\* every table got from t by turning one empty text into a missing value,
\* or one missing value into the empty text, is scored q on completeness,
\* consistency and overall quality
EmptyAndMissingScoreAlike(t, q) ==
    \A k \in 1..Len(t), i \in 1..NRows(t) :
        /\ t[k].cells[i] = StrCell("")
               => SameMissingScores(score_dataframe(WithCell(t, k, i, NaN)), q)
        /\ t[k].cells[i] = NaN
               => SameMissingScores(score_dataframe(WithCell(t, k, i, StrCell(""))), q)

\* C7: a table with an empty-text cell has the same completeness,
\* consistency and overall quality as the same table with that cell missing
C7_EmptyTextScoresAsMissing ==
    /\ pc = "scored" => EmptyAndMissingScoreAlike(df, quality_before)
    /\ pc = "done" => EmptyAndMissingScoreAlike(result.cleaned_df, quality_after)

\* a scored table that holds an empty text beside a value, so that the
\* empty text lowers completeness
C7_Witness ==
    /\ pc = "scored"
    /\ \E k \in 1..Len(df), i \in 1..NRows(df) : df[k].cells[i] = StrCell("")
    /\ \E k \in 1..Len(df), i \in 1..NRows(df) : df[k].cells[i] = StrCell("x")
    /\ quality_before.completeness < 100000

\* the first issue of out with the key
FirstWithKey(out, key) ==
    out[CHOOSE i \in 1..Len(out) :
            /\ IssueKey(out[i]) = key
            /\ \A j \in 1..(i - 1) : IssueKey(out[j]) # key]

\* C8: for every table and missing_threshold, detect_issues returns no two
\* issues with the same (title, columns), and for each pair the first issue
\* the heuristics produced, in the order they produced them
C8_IssuesDeduplicated ==
    pc = "detected" =>
        LET out == detect_out(df, missing_threshold)
        IN  /\ \A i, j \in 1..Len(issues) :
                   IssueKey(issues[i]) = IssueKey(issues[j]) => i = j
            /\ \A i \in 1..Len(out) :
                   \E j \in 1..Len(issues) :
                       issues[j] = FirstWithKey(out, IssueKey(out[i]))
            /\ \A j \in 1..Len(issues) :
                   issues[j] = FirstWithKey(out, IssueKey(issues[j]))
            /\ \A i, j \in 1..Len(issues) :
                   i < j => \E a, b \in 1..Len(out) :
                                a < b /\ out[a] = issues[i] /\ out[b] = issues[j]

\* a detection run, with a threshold other than the default, that returned
\* issues of several heuristics
C8_Witness ==
    /\ pc = "detected"
    /\ missing_threshold # <<1, 5>>
    /\ Len(issues) >= 3

\* C9: rows_changed_total is the number of original rows where the text of
\* some column differs between the original and the table before
\* deduplication, plus rows_removed
C9_ChangeAccounting ==
    Cleaned =>
        LET pre == PreDedupe(df, issues)
            changed == {i \in 1..NRows(df) :
                           \E k \in 1..Len(df) :
                               Repr(df[k].cells[i]) # Repr(pre[k].cells[i])}
        IN  result.summary.rows_changed_total
                = Cardinality(changed) + result.summary.rows_removed

\* a clean that changed rows and removed rows
C9_Witness ==
    /\ Cleaned
    /\ result.summary.rows_removed > 0
    /\ result.summary.rows_changed_total > result.summary.rows_removed

\* the table of the scenario
EmailScenario ==
    << InferColumn("email", <<StrCell("a@b.com"), StrCell("not-an-email"),
                              StrCell("c@d.org")>>) >>

InvalidEmailReported ==
    \E i \in 1..Len(issues) :
        issues[i].type = "invalid_email" /\ issues[i].columns = <<"email">>

\* C10 as stated: on email = ["a@b.com", "not-an-email", "c@d.org"] an
\* invalid_email issue is reported, clean rewrites row 1 to the empty text
\* and per_column_changed["email"] is 1
C10_EmailScenarioMasked ==
    (df = EmailScenario /\ Cleaned) =>
        /\ InvalidEmailReported
        /\ result.cleaned_df[1].cells[2] = StrCell("")
        /\ "email" \in DOMAIN result.summary.per_column_changed
        /\ result.summary.per_column_changed["email"] = 1

\* C10, amended: on that table an invalid_email issue is reported, clean
\* leaves row 1 (which holds no "@") and every other cell as it was, and
\* per_column_changed has no entry for email
C10_EmailScenarioUnchanged ==
    (df = EmailScenario /\ Cleaned) =>
        /\ InvalidEmailReported
        /\ result.cleaned_df[1].cells[2] = StrCell("not-an-email")
        /\ result.cleaned_df = df
        /\ "email" \notin DOMAIN result.summary.per_column_changed
        /\ result.summary.rows_changed_total = 0

\* the scenario, detected with the default threshold and cleaned
C10_Witness ==
    /\ df = EmailScenario
    /\ pc = "cleaned"
    /\ result.raised = ""
    /\ missing_threshold = <<1, 5>>
    /\ InvalidEmailReported

(***************************************************************************)
(* Degenerate inputs of the fixer (C11, C12).                              *)
(***************************************************************************)
\* the summary fields of a run on a table with rows (fixer.py l.228-235)
SummaryFields ==
    {"per_column_changed", "rows_removed", "rows_changed_total",
     "preview_changed_rows_returned", "preview_changed_limit",
     "date_columns_standardized"}

CleanCalled == pc \in {"cleaned", "done"}

\* C11 without the clause on the summary fields: clean on a zero-row table
\* does not raise and returns the input, zero counts, an empty preview and
\* an empty removed_rows
ZeroRowResult ==
    /\ result.raised = ""
    /\ result.cleaned_df = df
    /\ DOMAIN result.summary.per_column_changed = {}
    /\ result.summary.rows_removed = 0
    /\ result.summary.rows_changed_total = 0
    /\ result.summary.preview_changed_rows_returned = 0
    /\ result.changes_df = <<>>
    /\ result.removed_rows_df.index = <<>>

\* C11: clean on a table with zero rows, with any issue list and any
\* preview limit, does not raise and returns a table equal to the input, a
\* summary with empty per_column_changed, rows_removed = 0,
\* rows_changed_total = 0 and preview_changed_rows_returned = 0, an empty
\* preview and an empty removed_rows, the summary carrying the same fields
\* as the summary of a non-empty run
C11_ZeroRowsClean ==
    (CleanCalled /\ NRows(df) = 0) =>
        /\ ZeroRowResult
        /\ DOMAIN result.summary = SummaryFields

\* C11 without the clause on the summary fields
C11_ZeroRowsCleanValues ==
    (CleanCalled /\ NRows(df) = 0) => ZeroRowResult

\* C12: an issue naming a column absent from the table is skipped silently
\* for every handled issue type: clean raises nothing and returns the result
\* it returns for the issue list without that issue
C12_AbsentColumnSkipped ==
    (CleanCalled /\ HasStaleIssue(issues)) =>
        \E max_preview_rows \in PreviewLimits :
            result = generate_naive_clean_with_summary(
                         df, WithoutStaleIssues(issues), max_preview_rows)

\* C12 for the types other than duplicate_rows
C12_AbsentColumnSkippedButDuplicateRows ==
    (CleanCalled /\ HasStaleIssue(issues)
        /\ \A i \in 1..Len(issues) : IsStale(issues[i]) => issues[i].type # "duplicate_rows") =>
        \E max_preview_rows \in PreviewLimits :
            result = generate_naive_clean_with_summary(
                         df, WithoutStaleIssues(issues), max_preview_rows)

(***************************************************************************)
(* Dedupe (C18).                                                           *)
(***************************************************************************)
\* two rows of t agree on every column of cols
RowsAgree(t, cols, i, j) ==
    \A c \in cols : SameValue(t[ColIndex(t, c)].cells[i], t[ColIndex(t, c)].cells[j])

\* the rows of t that agree with an earlier row on every column of cols
AgreeWithEarlierRow(t, cols) ==
    {i \in 1..NRows(t) : \E j \in 1..(i - 1) : RowsAgree(t, cols, i, j)}

\* clean ran with at least one duplicate_rows issue and returned
Deduped == Cleaned /\ NRows(df) > 0 /\ UnionCols(issues) # {}

\* C18: with a duplicate_rows issue, clean drops exactly the rows that agree
\* with an earlier row on every column of the union of the duplicate_rows
\* column sets, decided on the values after the value-level transforms, it
\* keeps the first of them, and removed_rows holds exactly the dropped rows
\* with their original, untransformed values
C18_DedupeKeepFirst ==
    Deduped =>
        LET pre == FramesAfterClean(df, issues).pre_dedupe
            dropped == AgreeWithEarlierRow(pre, UnionCols(issues))
        IN  /\ result.cleaned_df = SelectRows(pre, (1..NRows(df)) \ dropped)
            /\ result.removed_rows_df = RowsAt(df, dropped)
            /\ result.summary.rows_removed = Cardinality(dropped)

\* the first half of C18: the rows dropped from the cleaned table
C18_DroppedAfterTransforms ==
    Deduped =>
        LET pre == FramesAfterClean(df, issues).pre_dedupe
        IN  result.cleaned_df =
                SelectRows(pre, (1..NRows(df)) \ AgreeWithEarlierRow(pre, UnionCols(issues)))

(***************************************************************************)
(* Preview of the changes (C19).                                           *)
(***************************************************************************)
Min(a, b) == IF a < b THEN a ELSE b

\* the columns of row idx whose text before differs from the text after
DifferingColumns(orig, pre, idx) ==
    {orig[k].name : k \in {j \in 1..Len(orig) : CellChanged(orig, pre, j, idx)}}

\* C19: the preview lists changed rows in increasing original position, only
\* rows with at least one differing column, for each row exactly the columns
\* that differ, and preview_changed_rows_returned is the smaller of the
\* preview limit and the number of changed rows
C19_PreviewOfChangedRows ==
    (Cleaned /\ NRows(df) > 0) =>
        LET pre == FramesAfterClean(df, issues).pre_dedupe
            changed == ChangedRowIndices(df, pre)
            preview == result.changes_df
        IN  /\ \A p \in 1..Len(preview) :
                   /\ \E q \in 1..Len(changed) : preview[p]._orig_index = changed[q] - 1
                   /\ DOMAIN preview[p].cells # {}
                   /\ DOMAIN preview[p].cells =
                          DifferingColumns(df, pre, preview[p]._orig_index + 1)
            /\ \A p, q \in 1..Len(preview) :
                   p < q => preview[p]._orig_index < preview[q]._orig_index
            /\ result.summary.preview_changed_rows_returned = Len(preview)
            /\ result.summary.preview_changed_rows_returned =
                   Min(result.summary.preview_changed_limit, Len(changed))

\* what holds of the preview: its records are changed rows in increasing
\* order, they list only columns that differ, and their count is never more
\* than the limit or the number of changed rows
C19_PreviewWithinLimit ==
    (Cleaned /\ NRows(df) > 0) =>
        LET pre == FramesAfterClean(df, issues).pre_dedupe
            changed == ChangedRowIndices(df, pre)
            preview == result.changes_df
        IN  /\ \A p \in 1..Len(preview) :
                   /\ \E q \in 1..Len(changed) : preview[p]._orig_index = changed[q] - 1
                   /\ DOMAIN preview[p].cells # {}
                   /\ DOMAIN preview[p].cells \subseteq
                          DifferingColumns(df, pre, preview[p]._orig_index + 1)
            /\ \A p, q \in 1..Len(preview) :
                   p < q => preview[p]._orig_index < preview[q]._orig_index
            /\ result.summary.preview_changed_rows_returned = Len(preview)
            /\ result.summary.preview_changed_rows_returned <=
                   Min(result.summary.preview_changed_limit, Len(changed))

(***************************************************************************)
(* Idempotence (C20).                                                      *)
(***************************************************************************)
\* the second run changed nothing
NoFurtherChanges ==
    /\ result_again.raised = ""
    /\ result_again.cleaned_df = result.cleaned_df
    /\ DOMAIN result_again.summary.per_column_changed = {}
    /\ result_again.summary.rows_removed = 0
    /\ result_again.summary.rows_changed_total = 0

\* C20: with C = clean(T, detect_issues(T)), clean(C, detect_issues(C))
\* returns a table equal to C, with empty per_column_changed,
\* rows_removed = 0 and rows_changed_total = 0
C20_Idempotent ==
    pc = "recleaned" => NoFurtherChanges

\* the second detect_issues reported an issue of the type
ReportedAgain(typ) == Len(IssuesOfType(issues_again, typ)) > 0

\* C20, amended: with C = clean(T, detect_issues(T)), if detect_issues(C)
\* reports no missing_high and no duplicate_rows issue, clean(C,
\* detect_issues(C)) returns a table equal to C, with empty
\* per_column_changed, rows_removed = 0 and rows_changed_total = 0
C20_IdempotentWhenNothingToFillOrDrop ==
    (pc = "recleaned" /\ ~ReportedAgain("missing_high") /\ ~ReportedAgain("duplicate_rows"))
        => NoFurtherChanges

\* a second run that changed nothing, after a first run that rewrote values
\* and left a table on which issues are still reported
C20_Witness ==
    /\ pc = "recleaned"
    /\ DOMAIN result.summary.per_column_changed # {}
    /\ Len(issues_again) > 0
    /\ ~ReportedAgain("missing_high")
    /\ ~ReportedAgain("duplicate_rows")
    /\ NoFurtherChanges

SetCalled == set_calls' = set_calls + 1

\* C14: initially and after any sequence of set_scoring_weights calls,
\* accepted or rejected, the key set of the weights is exactly the six
\* dimensions, every weight is non-negative and the six weights sum to 1
C14_WeightsNormalized ==
    /\ DOMAIN get_scoring_weights = DimSet
    /\ \A d \in DimSet :
          /\ ~IsNaNWeight(get_scoring_weights[d])
          /\ get_scoring_weights[d][1] >= 0
    /\ WeightTotal(get_scoring_weights) = <<1, 1>>

\* the rejection the documentation of set_scoring_weights promises for an
\* argument, "" where it promises none
PromisedRejection(cur, weights) ==
    IF ~weights.is_dict THEN "TypeError"
    ELSE IF \E k \in DOMAIN weights.items : k \notin DimSet THEN "KeyError"
    ELSE IF \E k \in DOMAIN weights.items : IsNegativeWeight(weights.items[k])
         THEN "ValueError"
    ELSE IF IsZeroWeight(WeightTotal(MergedWeights(cur, weights.items)))
         THEN "ValueError"
    ELSE ""

\* C15: set_scoring_weights rejects a non-dict with TypeError, a key outside
\* the six dimensions with KeyError, a negative value with ValueError and a
\* merged total of 0 with ValueError, and whenever it rejects the weights
\* read by get_scoring_weights are exactly what they were before the call
C15_RejectionsLeaveWeights ==
    [][SetCalled =>
          /\ PromisedRejection(scoring_weights, set_arg') # ""
                => set_raised' = PromisedRejection(scoring_weights, set_arg')
          /\ set_raised' # "" => get_scoring_weights' = get_scoring_weights]_vars

\* a call rejected while the weights differ from the initial ones
C15_Witness ==
    /\ set_calls = 2
    /\ set_raised = "ValueError"
    /\ scoring_weights # _SCORING_WEIGHTS
    /\ pc = "scored"

Abs(x) == IF x < 0 THEN -x ELSE x

FiniteWeights == \A d \in DimSet : ~IsNaNWeight(scoring_weights[d])

\* the sum over the six dimensions of weight[d] * metric[d], on the
\* reported (rounded) metrics, NaN when a weight is NaN
WeightedSumOfReported(v) ==
    LET Term[k \in 0..Len(Dims)] ==
            IF k = 0 THEN <<0, 1>>
            ELSE WeightAdd(Term[k - 1],
                           WeightMul(scoring_weights[Dims[k]], <<v[Dims[k]], 1>>))
    IN  Term[Len(Dims)]

\* the reported quality is the weighted sum of the reported metrics, up to
\* the rounding of either side to three decimals
QualityIsWeightedSum(v) ==
    LET s == WeightedSumOfReported(v)
    IN  IF IsNaNWeight(s) THEN v.quality = NaNQuality
        ELSE /\ v.quality # NaNQuality
             /\ Abs(v.quality * s[2] - s[1]) <= s[2]

\* C16: quality is the sum over the six dimensions of weight * metric; with
\* the default weights it is (completeness + safety) / 2, and after the
\* weights were set to completeness 1 and all others 0 it is completeness
C16_QualityIsWeightedSum ==
    pc = "scored" =>
        /\ QualityIsWeightedSum(quality_before)
        /\ scoring_weights = _SCORING_WEIGHTS =>
              Abs(2 * quality_before.quality
                  - (quality_before.completeness + quality_before.safety)) <= 2
        /\ (set_arg = CompletenessOnlyArg /\ set_raised = "") =>
              quality_before.quality = quality_before.completeness

\* C16 for weights that are numbers
C16_QualityIsWeightedSumOfFinite ==
    FiniteWeights => C16_QualityIsWeightedSum

\* C17: after a call set_scoring_weights({"completeness": 0.5, "safety": 0.5})
\* the weights are the initial defaults, whatever calls were accepted before
\* (stated for weights that are numbers)
C17_DefaultsRestored ==
    (set_arg = RestoreDefaultsArg /\ set_raised = "" /\ set_calls > 0 /\ FiniteWeights)
        => get_scoring_weights = _SCORING_WEIGHTS

(***************************************************************************)
(* History independence of the weights (C30), checked under SpecWeights.   *)
(***************************************************************************)
\* the last call was accepted and its argument names all six dimensions
FullAssignment ==
    /\ set_calls > 0
    /\ set_raised = ""
    /\ DOMAIN set_arg.items = DimSet

\* the argument of the last call divided by its sum
ArgumentOverSum ==
    [k \in DimSet |-> WeightDiv(set_arg.items[k], WeightTotal(set_arg.items))]

\* the weights a further call with the argument of the last call would leave
WeightsAfterSameCall == set_scoring_weights(scoring_weights, set_arg).weights

\* C30, first sentence: a call with all six keys leaves the argument divided
\* by its sum, whatever the weights were before
C30_FullAssignmentForgetsHistory ==
    FullAssignment => get_scoring_weights = ArgumentOverSum

\* C30, second sentence for a full argument: the same call again leaves the
\* weights as they are
C30_FullAssignmentRepeats ==
    FullAssignment => WeightsAfterSameCall = get_scoring_weights

\* C30: a call of set_scoring_weights with all six keys leaves the argument
\* divided by its sum whatever the weights were before, and after an accepted
\* call with any argument, full or partial, the same call again leaves the
\* weights as they are (stated for weights that are numbers)
C30_HistoryIndependence ==
    /\ C30_FullAssignmentForgetsHistory
    /\ (set_calls > 0 /\ set_raised = "" /\ FiniteWeights)
           => WeightsAfterSameCall = get_scoring_weights

(***************************************************************************)
(* Value-level transforms (C22).                                           *)
(***************************************************************************)
\* the table as the invalid-email step finds it: after the missing-high fill
BeforeMasking(t, its) ==
    TransformColumns(t, IssueColumns(its, "missing_high"), FillMissing)

\* the columns of df that an issue of the type names
NamedColumns(typ) ==
    {k \in 1..Len(df) : df[k].name \in IssueColumns(issues, typ)}

\* the cell is a text with an "@" that the strict pattern rejects
InvalidAddress(c) == IsStr(c) /\ StrContains(c[2], "@") /\ ~EmailPattern(c[2])

\* C22: in every column named by an invalid_email issue, clean replaces with
\* the empty string exactly the cells whose text contains "@" and does not
\* match the strict email pattern; cells without "@", valid emails and
\* missing cells of that column are as the step found them
C22_InvalidEmailMasking ==
    (Cleaned /\ NRows(df) > 0) =>
        \A k \in NamedColumns("invalid_email") :
            \A i \in 1..NRows(df) :
                LET found == BeforeMasking(df, issues)[k].cells[i]
                    left == FramesAfterClean(df, issues).pre_dedupe[k].cells[i]
                IN  left = IF InvalidAddress(found) THEN StrCell("") ELSE found

\* a cleaned email column, named by an invalid_email issue, in which the
\* invalid address was emptied and the missing cell stayed missing
C22_Witness ==
    /\ Cleaned
    /\ NRows(df) = 2
    /\ NamedColumns("invalid_email") = {1}
    /\ df[1].cells = <<StrCell("bad@"), NaN>>
    /\ result.cleaned_df[1].cells = <<StrCell(""), NaN>>

(***************************************************************************)
(* Change counts (C23, C24).                                               *)
(***************************************************************************)
\* the original positions (1-based) of the rows whose text differs in some
\* column between the original and the table before deduplication
ValueChangedRows ==
    LET pre == FramesAfterClean(df, issues).pre_dedupe
    IN  {i \in 1..NRows(df) : \E k \in 1..Len(df) : CellChanged(df, pre, k, i)}

\* the original positions (1-based) of the rows in removed_rows
RemovedRows ==
    {result.removed_rows_df.index[r] + 1 : r \in 1..Len(result.removed_rows_df.index)}

\* C23: rows_changed_total is a union count: the number of distinct original
\* rows that were value-changed or removed by deduplication, a row that is
\* both counted once, and never more than the rows of the original table
C23_RowsChangedIsUnion ==
    (Cleaned /\ NRows(df) > 0) =>
        /\ result.summary.rows_changed_total
               = Cardinality(ValueChangedRows \cup RemovedRows)
        /\ result.summary.rows_changed_total <= NRows(df)

\* two cells differ, missing-aware: a missing cell differs from every value
\* and from no missing cell, two values differ when their texts do
DiffersMissingAware(a, b) ==
    IF IsNA(a) \/ IsNA(b) THEN ~(IsNA(a) /\ IsNA(b)) ELSE PyStr(a) # PyStr(b)

\* the rows of the whole original table whose cell in column k differs
\* between the original and the table pre before deduplication
DifferingRows(pre, k) ==
    {i \in 1..NRows(df) : DiffersMissingAware(df[k].cells[i], pre[k].cells[i])}

\* the parts of a result that do not depend on the preview
WithoutPreview(r) ==
    <<r.cleaned_df, r.removed_rows_df, r.summary.per_column_changed,
      r.summary.rows_removed, r.summary.rows_changed_total>>

\* C24: per_column_changed[c] is the number of rows of the whole original
\* table, rows later removed by deduplication included, whose cell in column
\* c differs, missing-aware, between the original and the table before
\* deduplication; it lists only the columns with a count above 0; and it,
\* rows_removed, rows_changed_total and the cleaned table are the same for
\* every preview limit
C24_FullTableChangeCounts ==
    (Cleaned /\ NRows(df) > 0) =>
        LET pre == FramesAfterClean(df, issues).pre_dedupe
            counts == AsSeq([k \in 1..Len(df) |-> Cardinality(DifferingRows(pre, k))])
        IN
        /\ DOMAIN result.summary.per_column_changed
               = {df[k].name : k \in {j \in 1..Len(df) : counts[j] > 0}}
        /\ \A k \in 1..Len(df) :
               counts[k] > 0 =>
                   result.summary.per_column_changed[df[k].name] = counts[k]
        /\ \A max_preview_rows \in PreviewLimits :
               WithoutPreview(generate_naive_clean_with_summary(df, issues, max_preview_rows))
                   = WithoutPreview(result)

\* a clean with the preview limit 1 that removed a row whose change is
\* counted and left a column unchanged
C24_Witness ==
    /\ Cleaned
    /\ result.summary.preview_changed_limit = 1
    /\ Len(df) = 2
    /\ DOMAIN result.summary.per_column_changed = {"expected_close"}
    /\ result.summary.rows_removed > 0
    /\ result.summary.per_column_changed["expected_close"] > NRows(result.cleaned_df)

(***************************************************************************)
(* The high-missingness rule of the validator (C25).                       *)
(***************************************************************************)
\* the missing_high issues reported on a column
MissingHighOn(c) ==
    SelectSeq(issues, LAMBDA it : it.type = "missing_high" /\ it.columns = <<c>>)

\* C25: detect_issues reports a missing_high issue for a column if and only
\* if its missing fraction is at least missing_threshold and greater than 0
\* (a threshold of 0 flags only columns with a missing cell, a zero-row
\* table flags none); the severity is high when the fraction is at least
\* 0.5 and medium otherwise
C25_HighMissingRule ==
    pc = "detected" =>
        \A k \in 1..Len(df) :
            LET n == NRows(df)
                missing == Cardinality({i \in 1..n : IsNA(df[k].cells[i])})
                flagged == /\ n > 0
                           /\ missing > 0
                           /\ missing * missing_threshold[2] >= missing_threshold[1] * n
                found == MissingHighOn(df[k].name)
            IN  /\ Len(found) = (IF flagged THEN 1 ELSE 0)
                /\ flagged =>
                       found[1].severity = (IF 2 * missing >= n THEN "high" ELSE "medium")
                /\ \A j \in 1..Len(issues) :
                       issues[j].type = "missing_high" => Len(issues[j].columns) = 1

\* detection with threshold 0 that flagged a column with one missing cell
\* of three as medium
C25_Witness ==
    /\ pc = "detected"
    /\ missing_threshold = <<0, 1>>
    /\ NRows(df) = 3
    /\ Cardinality({i \in 1..3 : IsNA(df[1].cells[i])}) = 1
    /\ Len(MissingHighOn(df[1].name)) = 1
    /\ MissingHighOn(df[1].name)[1].severity = "medium"

\* detection with threshold 1 on a column that has a missing cell and is
\* not flagged
C25_WitnessBelowThreshold ==
    /\ pc = "detected"
    /\ missing_threshold = <<1, 1>>
    /\ \E i \in 1..NRows(df) : IsNA(df[1].cells[i])
    /\ Len(MissingHighOn(df[1].name)) = 0

(***************************************************************************)
(* Whitespace in scoring (C26).                                            *)
(***************************************************************************)
SameCompletenessConsistencySafety(a, b) ==
    /\ a.completeness = b.completeness
    /\ a.consistency = b.consistency
    /\ a.safety = b.safety

\* a text made of whitespace only, the empty text included
IsBlankText(c) == IsStr(c) /\ StrStrip(c[2]) = ""

\* C26 as stated: score applied to a table with a text cell holding only
\* whitespace returns the same completeness, consistency and safety as
\* score applied to the same table with that cell missing
C26_BlankTextScoresAsMissing ==
    pc = "scored" =>
        \A k \in 1..Len(df), i \in 1..NRows(df) :
            IsBlankText(df[k].cells[i]) =>
                SameCompletenessConsistencySafety(
                    score_dataframe(WithCell(df, k, i, NaN)), quality_before)

\* C26, amended: only the exactly empty text is scored as missing: a table
\* with an empty-text cell has the same completeness, consistency and safety
\* as the same table with that cell missing, while a cell holding whitespace
\* that is not empty counts as a value, so the table has a higher
\* completeness than the same table with that cell missing
C26_OnlyEmptyTextScoresAsMissing ==
    pc = "scored" =>
        \A k \in 1..Len(df), i \in 1..NRows(df) :
            /\ df[k].cells[i] = StrCell("") =>
                   SameCompletenessConsistencySafety(
                       score_dataframe(WithCell(df, k, i, NaN)), quality_before)
            /\ (IsBlankText(df[k].cells[i]) /\ df[k].cells[i] # StrCell("")) =>
                   score_dataframe(WithCell(df, k, i, NaN)).completeness
                       < quality_before.completeness

\* a scored table with a whitespace-only text and an empty text: only the
\* empty text is counted as missing
C26_Witness ==
    /\ pc = "scored"
    /\ df[1].cells = <<StrCell(" "), StrCell("")>>
    /\ quality_before.completeness = 50000

(***************************************************************************)
(* The missing-value fill (C27).                                           *)
(***************************************************************************)
\* the value the fill gives a missing cell of the column: the median of a
\* numeric column that has a value, the empty text otherwise
FillValue(col) ==
    IF IsNumericDtype(col) /\ (\E i \in 1..Len(col.cells) : ~IsNA(col.cells[i]))
    THEN FltCell(Median(col.cells))
    ELSE StrCell("")

\* C27: for every column named by a missing_high issue and present in the
\* table, clean replaces each missing cell with the median of the column's
\* values when the column is numeric and has a value, and with the empty
\* string otherwise, leaves the other cells of the column untouched in this
\* step, and the cleaned table has no missing cell left in that column,
\* also when a dtype_mismatch issue names it or it is treated as date-like
C27_MissingFilled ==
    (Cleaned /\ NRows(df) > 0) =>
        \A k \in NamedColumns("missing_high") :
            /\ \A i \in 1..NRows(df) :
                   BeforeMasking(df, issues)[k].cells[i]
                       = IF IsNA(df[k].cells[i]) THEN FillValue(df[k])
                         ELSE df[k].cells[i]
            /\ \A r \in 1..NRows(result.cleaned_df) :
                   ~IsNA(result.cleaned_df[k].cells[r])

\* the first half of C27, for the columns that are not numeric without a
\* value: the fill step alone
C27_FillStep ==
    (Cleaned /\ NRows(df) > 0) =>
        \A k \in NamedColumns("missing_high") :
            (~IsNumericDtype(df[k]) \/ \E i \in 1..NRows(df) : ~IsNA(df[k].cells[i])) =>
                \A i \in 1..NRows(df) :
                    BeforeMasking(df, issues)[k].cells[i]
                        = IF IsNA(df[k].cells[i]) THEN FillValue(df[k])
                          ELSE df[k].cells[i]

\* C27 for the columns that have a value, are not named by a dtype_mismatch
\* issue and are not date-like
C27_MissingFilledWithoutLaterSteps ==
    (Cleaned /\ NRows(df) > 0) =>
        \A k \in NamedColumns("missing_high") :
            (/\ \E i \in 1..NRows(df) : ~IsNA(df[k].cells[i])
             /\ k \notin NamedColumns("dtype_mismatch")
             /\ df[k].name \notin result.summary.date_columns_standardized) =>
                \A r \in 1..NRows(result.cleaned_df) :
                    ~IsNA(result.cleaned_df[k].cells[r])

(***************************************************************************)
(* Deduplication: row conservation and resolution (C28, C29).              *)
(***************************************************************************)
\* the original positions (1-based) of the rows of the cleaned table: the
\* rows drop_duplicates keeps of the table before deduplication
KeptPositions == KeptRows(FramesAfterClean(df, issues).pre_dedupe, issues)

\* C28: whenever clean returns, rows of the cleaned table + rows_removed =
\* rows of the original table, and the original positions of the rows in
\* removed_rows are exactly the original positions missing from the cleaned
\* table; with no duplicate_rows issue the cleaned table has every original
\* row in its original position and removed_rows is empty
C28_RowConservation ==
    (Cleaned /\ NRows(df) > 0) =>
        /\ NRows(result.cleaned_df) + result.summary.rows_removed = NRows(df)
        /\ RemovedRows = (1..NRows(df)) \ KeptPositions
        /\ IssuesOfType(issues, "duplicate_rows") = <<>> =>
               /\ NRows(result.cleaned_df) = NRows(df)
               /\ result.removed_rows_df.index = <<>>

\* the last clause of C28: without a duplicate_rows issue no row is removed
C28_NoDedupeKeepsRows ==
    (Cleaned /\ NRows(df) > 0 /\ IssuesOfType(issues, "duplicate_rows") = <<>>) =>
        /\ NRows(result.cleaned_df) = NRows(df)
        /\ result.cleaned_df = FramesAfterClean(df, issues).pre_dedupe
        /\ result.removed_rows_df.index = <<>>
        /\ result.summary.rows_removed = 0

\* C29: for every table T, detect_issues applied to
\* clean(T, detect_issues(T)) reports no duplicate_rows issue: every
\* identifier column of the cleaned table holds pairwise distinct values,
\* also when more than one identifier column was flagged in T
C29_DuplicatesResolved ==
    pc = "recleaned" => IssuesOfType(issues_again, "duplicate_rows") = <<>>

\* C29 for the tables in which two identifier columns were flagged
C29_DuplicatesResolvedInTwoColumns ==
    (pc = "recleaned" /\ Len(IssuesOfType(issues, "duplicate_rows")) = 2)
        => IssuesOfType(issues_again, "duplicate_rows") = <<>>

\* C29 for the tables with one identifier column that clean did not fill
C29_DuplicatesResolvedInOneColumn ==
    (pc = "recleaned" /\ Len(IssuesOfType(issues, "duplicate_rows")) = 1
        /\ IssuesOfType(issues, "missing_high") = <<>>)
        => IssuesOfType(issues_again, "duplicate_rows") = <<>>

(***************************************************************************)
(* Score bounds (C21), checked under SpecWeights.                          *)
(***************************************************************************)
\* the seven reported numbers lie on the percent scale 0..100
WithinScale(v) ==
    \A f \in DimSet \cup {"quality"} : v[f] >= 0 /\ v[f] <= 100000

\* C21: for every table and every weight vector reachable through
\* set_scoring_weights, each metric and the overall quality returned by
\* score_dataframe lie within 0..100, and a table with zero rows yields the
\* perfect value for every metric without raising
C21_ScoresWithinScale ==
    pc = "scored" =>
        /\ WithinScale(quality_before)
        /\ NRows(df) = 0 => quality_before = PerfectScores

\* C21 for weights that are numbers
C21_ScoresWithinScaleForFinite ==
    FiniteWeights => C21_ScoresWithinScale

====
